---- MODULE Spec2Model ----
(***************************************************************************)
(* The register-machine interpreter of src/src/vm.rs (struct Vm and its    *)
(* methods) over the instruction type of src/src/vm/parser.rs.             *)
(*                                                                         *)
(* One step of the model is one iteration of the loop of Vm::interpret     *)
(* (fetch at pc, then the whole method the instruction dispatches to), or  *)
(* one call of Vm::interpret up to the loop. The parser of                 *)
(* src/src/vm/parser.rs is a function of its input, applied in one step.   *)
(***************************************************************************)
EXTENDS Integers, Sequences, FiniteSets, TLC

VARIABLES
    registers,     \* Vm.registers : HashMap<Register, Constant>, a function on the bound names
    pc,            \* Vm.pc : usize
    max_len,       \* Vm.max_len : usize
    instructions,  \* the slice borrowed by the running call of interpret
    mode,          \* "new" | "running" | "returned" | "panicked"
    out,           \* the characters written to stdout, as scalar values
    steps,         \* loop iterations that fetched an instruction, over the Vm's life
    calls,         \* calls of interpret made on this Vm
    lines,         \* the Vec<&str> given to parse_instructions
    parsed         \* None, or the Result that parse_instructions returned

vars == <<registers, pc, max_len, instructions, mode, out, steps, calls, lines, parsed>>

(***************************************************************************)
(* Bounds of the exploration.                                              *)
(***************************************************************************)
MaxLen == 3
MaxSteps == 3
MaxCalls == 2

(***************************************************************************)
(* Constant(i32), Register(String), ConstOrReg, Instruction.               *)
(***************************************************************************)
I32Max == 2147483647
I32Min == -I32Max - 1
ZERO == 0

\* char::from_u32 accepts the scalar values: 0..=0x10FFFF without 0xD800..=0xDFFF
CharMax == 1114111
SurrogateLo == 55296
SurrogateHi == 57343

Regs == {"a", "b"}

Const(c) == [tag |-> "Const", val |-> c]
Reg(r) == [tag |-> "Reg", reg |-> r]

Mov(x, y) == [op |-> "Mov", x |-> x, cy |-> y]
Add(x, y) == [op |-> "Add", x |-> x, y |-> y]
Jnz(x, y) == [op |-> "Jnz", cx |-> x, cy |-> y]
Prt(x) == [op |-> "Print", x |-> x]

\* The constants the explored programs move, test and jump by.
MovConsts == {I32Min, -1, 0, 1, SurrogateLo, CharMax, I32Max}
TestConsts == {0, 1}
JumpConsts == {I32Min, -1, 0, 1, 2}

Instrs ==
    {Mov(x, Const(c)) : x \in Regs, c \in MovConsts}
    \cup {Mov(x, Reg(y)) : x \in Regs, y \in Regs}
    \cup {Add(x, y) : x \in Regs, y \in Regs}
    \cup {Prt(x) : x \in Regs}
    \cup {Jnz(x, y) : x \in {Const(c) : c \in TestConsts} \cup {Reg(r) : r \in Regs},
                      y \in {Const(c) : c \in JumpConsts} \cup {Reg(r) : r \in Regs}}

\* An element of the slice that the loop has not read yet (see Fetch).
Unread == [op |-> "Unread"]

(***************************************************************************)
(* i32 and usize arithmetic.                                               *)
(***************************************************************************)
\* i32::saturating_add in the place of wrapping_add
saturating_add(v, w) ==
    IF v > 0 /\ w > 0 /\ v > I32Max - w THEN I32Max
    ELSE IF v < 0 /\ w < 0 /\ v < I32Min - w THEN I32Min
    ELSE v + w

\* i32::wrapping_add: the sum modulo 2^32, in -2^31 .. 2^31 - 1. The three
\* branches keep every intermediate value inside that range.
wrapping_add(v, w) ==
    IF v > 0 /\ w > 0 /\ v > I32Max - w THEN (v + I32Min) + (w + I32Min)
    ELSE IF v < 0 /\ w < 0 /\ v < I32Min - w THEN (v - I32Min) + (w - I32Min)
    ELSE v + w

\* a from_u32 that lets the surrogates through
from_u32_range_only(v) == v <= CharMax

\* char::from_u32(v as u32) is Some, for v >= 0
from_u32(v) == v <= CharMax /\ ~(SurrogateLo <= v /\ v <= SurrogateHi)

None == [tag |-> "None"]

Init ==
    /\ lines = <<>>
    /\ parsed = None
    /\ registers = [r \in {} |-> 0]
    /\ pc = 0
    /\ max_len = 0
    /\ instructions = <<>>
    /\ mode = "new"
    /\ out = <<>>
    /\ steps = 0
    /\ calls = 0

(***************************************************************************)
(* The methods of Vm. Each is the whole method: what it reads, what it     *)
(* writes, and where it panics. A panic aborts the process before any      *)
(* write of the method has happened.                                       *)
(***************************************************************************)
panic ==
    /\ mode' = "panicked"
    /\ UNCHANGED <<registers, pc, out>>

\* an insert that keeps no other binding
insert_alone(x, v) == [r \in {x} |-> v]

\* HashMap::insert
insert(x, v) == [r \in DOMAIN registers \cup {x} |-> IF r = x THEN v ELSE registers[r]]

mov_const(x, y) ==
    /\ registers' = insert(x, y)
    /\ pc' = pc + 1
    /\ UNCHANGED <<mode, out>>

mov(x, y) ==
    IF y \in DOMAIN registers
    THEN /\ registers' = insert(x, registers[y])
         /\ pc' = pc + 1
         /\ UNCHANGED <<mode, out>>
    ELSE panic

\* add taking an unbound x for zero
add_defaulting(x, y) ==
    IF y \in DOMAIN registers
    THEN /\ registers' = insert(x, IF x \in DOMAIN registers
                                   THEN wrapping_add(registers[x], registers[y])
                                   ELSE registers[y])
         /\ pc' = pc + 1
         /\ UNCHANGED <<mode, out>>
    ELSE panic

add(x, y) ==
    IF x \in DOMAIN registers /\ y \in DOMAIN registers
    THEN /\ registers' = insert(x, wrapping_add(registers[x], registers[y]))
         /\ pc' = pc + 1
         /\ UNCHANGED <<mode, out>>
    ELSE panic

\* print starting the output over at each character
print_restarting(x) ==
    IF x \in DOMAIN registers
    THEN IF registers[x] < 0
         THEN panic
         ELSE IF from_u32(registers[x])
              THEN /\ out' = <<registers[x]>>
                   /\ pc' = pc + 1
                   /\ UNCHANGED <<registers, mode>>
              ELSE panic
    ELSE UNCHANGED <<registers, pc, mode, out>>

print(x) ==
    IF x \in DOMAIN registers
    THEN IF registers[x] < 0
         THEN panic
         ELSE IF from_u32(registers[x])
              THEN /\ out' = Append(out, registers[x])
                   /\ pc' = pc + 1
                   /\ UNCHANGED <<registers, mode>>
              ELSE panic
    ELSE UNCHANGED <<registers, pc, mode, out>>

\* get_const_or_load returns a value unless x names an unbound register
loads(x) == x.tag = "Const" \/ x.reg \in DOMAIN registers

get_const_or_load(x) == IF x.tag = "Const" THEN x.val ELSE registers[x.reg]

\* i32::abs: -2^31 has no absolute value in i32. With overflow checks (a debug
\* build) abs panics; without (a release build) it returns -2^31.
abs_overflows(jump) == jump = I32Min

abs(jump) == IF jump = I32Min THEN I32Min ELSE IF jump < 0 THEN -jump ELSE jump

\* usize::checked_sub(p, n as usize) is None. A negative n (only -2^31, from
\* a wrapped abs) casts to 2^64 - 2^31 (2^31 where usize has 32 bits), which
\* is above any p that indexes a slice.
sub_is_none(p, n) == n < 0 \/ n > p

\* a new_pc that adds whatever the sign of the jump
new_pc_forward(p, jump) == p + abs(jump)

\* The new_pc of jumpz for a jump whose checked arithmetic is Some.
\* checked_add cannot be None: p < 2^31 and n < 2^31.
new_pc(p, jump) == IF jump < ZERO THEN p - abs(jump) ELSE p + abs(jump)

\* new_pc >= self.max_len in the place of new_pc > self.max_len
too_far_at_len(p, jump, len) == jump >= ZERO /\ abs(jump) >= len - p

\* new_pc > self.max_len + 1 in the place of new_pc > self.max_len
too_far_past_end(p, jump, len) == jump >= ZERO /\ abs(jump) > len - p + 1

\* new_pc > self.max_len, written without forming p + n so that every value
\* stays below 2^31 (p <= len holds wherever jumpz runs).
too_far(p, jump, len) == jump >= ZERO /\ abs(jump) > len - p

\* jumpz resolving both operands before it tests the first
jumpz_resolving_both(x, y) ==
    IF ~loads(x) \/ ~loads(y) THEN panic
    ELSE IF get_const_or_load(x) = ZERO
    THEN /\ pc' = pc + 1
         /\ UNCHANGED <<registers, mode, out>>
    ELSE LET jump == get_const_or_load(y) IN
         \E overflow_checks \in BOOLEAN :
            IF jump < ZERO /\ abs_overflows(jump) /\ overflow_checks THEN panic
            ELSE IF jump < ZERO /\ sub_is_none(pc, abs(jump)) THEN panic
            ELSE IF too_far(pc, jump, max_len) THEN panic
            ELSE /\ pc' = new_pc(pc, jump)
                 /\ UNCHANGED <<registers, mode, out>>

jumpz(x, y) ==
    IF ~loads(x) THEN panic
    ELSE IF get_const_or_load(x) = ZERO
    THEN /\ pc' = pc + 1
         /\ UNCHANGED <<registers, mode, out>>
    ELSE IF ~loads(y) THEN panic
    ELSE LET jump == get_const_or_load(y) IN
         \E overflow_checks \in BOOLEAN :
            IF jump < ZERO /\ abs_overflows(jump) /\ overflow_checks THEN panic
            ELSE IF jump < ZERO /\ sub_is_none(pc, abs(jump)) THEN panic
            ELSE IF too_far(pc, jump, max_len) THEN panic
            ELSE /\ pc' = new_pc(pc, jump)
                 /\ UNCHANGED <<registers, mode, out>>

(***************************************************************************)
(* Vm::interpret. The slice is fixed for the whole call. A call is made    *)
(* with a slice of a given length, and an element of it is fixed when the  *)
(* loop first reads it (Holds); from then on the loop finds that element   *)
(* at that address. The runs explored are therefore exactly the runs of    *)
(* every slice over Instrs of that length, and a state keeps only the      *)
(* elements the run has depended on. A slice given in full is run as it is.*)
(***************************************************************************)
Slices == {[i \in 1..n |-> Unread] : n \in 0..MaxLen}

StartPcs == 0..(MaxLen + 1)

interpret(instrs, start_pc) ==
    /\ mode \in {"new", "returned"}
    /\ calls < MaxCalls
    /\ pc' = start_pc
    /\ max_len' = Len(instrs)
    /\ instructions' = instrs
    /\ mode' = "running"
    /\ calls' = calls + 1
    /\ UNCHANGED <<registers, out, steps, lines, parsed>>

\* what instructions.get(self.pc) can hold, for pc inside the slice
Holds(p) == IF instructions[p + 1] = Unread THEN Instrs ELSE {instructions[p + 1]}

\* instructions.get(self.pc) is Some(instr)
fetch(instr) ==
    /\ mode = "running"
    /\ pc < Len(instructions)
    /\ steps < MaxSteps
    /\ instr \in Holds(pc)
    /\ instructions' = [instructions EXCEPT ![pc + 1] = instr]
    /\ steps' = steps + 1
    /\ UNCHANGED <<max_len, calls, lines, parsed>>

loop_add ==
    \E instr \in {i \in Instrs : i.op = "Add"} :
        fetch(instr) /\ add(instr.x, instr.y)

loop_mov ==
    \E instr \in {i \in Instrs : i.op = "Mov"} :
        /\ fetch(instr)
        /\ IF instr.cy.tag = "Const"
           THEN mov_const(instr.x, instr.cy.val)
           ELSE mov(instr.x, instr.cy.reg)

loop_print ==
    \E instr \in {i \in Instrs : i.op = "Print"} :
        fetch(instr) /\ print(instr.x)

loop_jnz ==
    \E instr \in {i \in Instrs : i.op = "Jnz"} :
        fetch(instr) /\ jumpz(instr.cx, instr.cy)

\* a loop that returns one element early
loop_return_at_last ==
    /\ mode = "running"
    /\ pc + 1 >= Len(instructions)
    /\ mode' = "returned"
    /\ instructions' = <<>>
    /\ UNCHANGED <<registers, pc, max_len, out, steps, calls, lines, parsed>>

\* instructions.get(self.pc) is None: interpret returns, and its borrow of the
\* slice ends
loop_return ==
    /\ mode = "running"
    /\ pc >= Len(instructions)
    /\ mode' = "returned"
    /\ instructions' = <<>>
    /\ UNCHANGED <<registers, pc, max_len, out, steps, calls, lines, parsed>>

call ==
    \E instrs \in Slices, start_pc \in StartPcs : interpret(instrs, start_pc)

Next ==
    \/ call
    \/ loop_add
    \/ loop_mov
    \/ loop_print
    \/ loop_jnz
    \/ loop_return

Spec == Init /\ [][Next]_vars

(***************************************************************************)
(* The calls of interpret whose start address is inside the slice or at    *)
(* its end.                                                                *)
(***************************************************************************)
call_in_program ==
    \E instrs \in Slices, start_pc \in StartPcs :
        start_pc <= Len(instrs) /\ interpret(instrs, start_pc)

NextInProgram ==
    \/ call_in_program
    \/ loop_add
    \/ loop_mov
    \/ loop_print
    \/ loop_jnz
    \/ loop_return

SpecInProgram == Init /\ [][NextInProgram]_vars

(***************************************************************************)
(* The loop of Vm::interpret as one action: the fetch, of an instruction   *)
(* of `universe` where the slice is yet unread, and the match on the       *)
(* fetched instruction. Nothing bounds the number of iterations here;      *)
(* steps counts them up to `shown` and stays there, so that a run that     *)
(* never leaves the loop is a finite set of states.                        *)
(***************************************************************************)
dispatch(instr) ==
    IF instr.op = "Add" THEN add(instr.x, instr.y)
    ELSE IF instr.op = "Mov"
    THEN IF instr.cy.tag = "Const"
         THEN mov_const(instr.x, instr.cy.val)
         ELSE mov(instr.x, instr.cy.reg)
    ELSE IF instr.op = "Print" THEN print(instr.x)
    ELSE jumpz(instr.cx, instr.cy)

iteration(shown, universe) ==
    /\ mode = "running"
    /\ pc < Len(instructions)
    /\ \E instr \in Holds(pc) \cap (universe \cup {instructions[pc + 1]}) :
          /\ instructions' = [instructions EXCEPT ![pc + 1] = instr]
          /\ dispatch(instr)
    /\ steps' = IF steps < shown THEN steps + 1 ELSE steps
    /\ UNCHANGED <<max_len, calls, lines, parsed>>

(***************************************************************************)
(* The countdown of tests::test_backward_jump, for a count n, run from     *)
(* address 0 on a new Vm. The loop is sequential code: while an iteration  *)
(* or the return is possible, it is taken.                                 *)
(***************************************************************************)
MaxCount == 9

countdown(n) ==
    <<Mov("a", Const(n)), Mov("b", Const(-1)), Add("a", "b"), Jnz(Reg("a"), Const(-1))>>

CountdownShown == 2 * MaxCount + 3

call_countdown ==
    /\ mode = "new"
    /\ \E n \in 1..MaxCount : interpret(countdown(n), 0)

countdown_iteration == iteration(CountdownShown, {})

NextCountdown ==
    \/ call_countdown
    \/ countdown_iteration
    \/ loop_return

SpecCountdown == Init /\ [][NextCountdown]_vars /\ WF_vars(NextCountdown)

(***************************************************************************)
(* The programs whose every Jnz has a constant, strictly positive offset,  *)
(* each run once on a new Vm from any start address, under the same        *)
(* fairness of the loop. A run that halts or aborts takes at most one      *)
(* iteration per address.                                                  *)
(***************************************************************************)
ForwardInstrs ==
    {i \in Instrs : i.op = "Jnz" => (i.cy.tag = "Const" /\ i.cy.val > 0)}

ForwardShown == MaxLen + 1

call_forward ==
    /\ mode = "new"
    /\ \E instrs \in Slices, start_pc \in StartPcs : interpret(instrs, start_pc)

forward_iteration == iteration(ForwardShown, ForwardInstrs)

NextForward ==
    \/ call_forward
    \/ forward_iteration
    \/ loop_return

SpecForward == Init /\ [][NextForward]_vars /\ WF_vars(NextForward)

(***************************************************************************)
(* The parser. A &str is the sequence of its characters, each a string of  *)
(* one character; Register(String) holds the characters of its name.       *)
(* A Result is Ok(value) or Err(err).                                      *)
(***************************************************************************)
Ok(v) == [tag |-> "Ok", value |-> v]
Err(e) == [tag |-> "Err", err |-> e]

AsciiDigits == <<"0", "1", "2", "3", "4", "5", "6", "7", "8", "9">>

is_digit(c) == \E d \in DOMAIN AsciiDigits : AsciiDigits[d] = c

to_digit(c) == (CHOOSE d \in DOMAIN AsciiDigits : AsciiDigits[d] = c) - 1

\* char::is_alphabetic on the characters that the inputs are written in
Alphabetic ==
    {"a", "b", "c", "d", "i", "j", "m", "n", "o", "p", "r", "t", "v", "x", "z",
     "A", "D", "M", "O", "V"}

is_alphabetic(c) == c \in Alphabetic

is_ascii_whitespace(c) == c \in {" ", "\t"}

\* str::split_ascii_whitespace: the maximal runs of non-whitespace, in order
RECURSIVE split(_, _, _)
split(rest, token, parts) ==
    IF rest = <<>>
    THEN IF token = <<>> THEN parts ELSE Append(parts, token)
    ELSE IF is_ascii_whitespace(Head(rest))
    THEN split(Tail(rest), <<>>, IF token = <<>> THEN parts ELSE Append(parts, token))
    ELSE split(Tail(rest), Append(token, Head(rest)), parts)

split_ascii_whitespace(line) == split(line, <<>>, <<>>)

(***************************************************************************)
(* <i32 as FromStr>::from_str, radix 10: an optional sign '+' or '-', then *)
(* at least one digit; the value is accumulated digit by digit with        *)
(* checked_mul and checked_add (checked_sub after a '-'), and any None or  *)
(* any character that is not a digit is an error.                          *)
(***************************************************************************)
RECURSIVE accumulate(_, _, _)
accumulate(digits, result, is_positive) ==
    IF digits = <<>> THEN Ok(result)
    ELSE IF ~is_digit(Head(digits)) THEN Err("InvalidDigit")
    ELSE LET d == to_digit(Head(digits))
         IN  IF is_positive
             THEN IF result > I32Max \div 10 \/ result * 10 > I32Max - d
                  THEN Err("PosOverflow")
                  ELSE accumulate(Tail(digits), result * 10 + d, is_positive)
             ELSE IF result < -(I32Max \div 10) \/ result * 10 < I32Min + d
                  THEN Err("NegOverflow")
                  ELSE accumulate(Tail(digits), result * 10 - d, is_positive)

\* a from_str that takes no sign
i32_from_str_unsigned(s) ==
    IF s = <<>> THEN Err("Empty") ELSE accumulate(s, 0, TRUE)

i32_from_str(s) ==
    IF s = <<>> THEN Err("Empty")
    ELSE IF Head(s) \in {"+", "-"}
    THEN IF Tail(s) = <<>> THEN Err("InvalidDigit")
         ELSE accumulate(Tail(s), 0, Head(s) = "+")
    ELSE accumulate(s, 0, TRUE)

\* Display for RegisterParseError
RegisterParseError == "Parsing failure, register value should be alphabetic"

Register_from_str(s) ==
    IF \A k \in DOMAIN s : is_alphabetic(s[k])
    THEN Ok(s)
    ELSE Err(RegisterParseError)

Constant_from_str(s) == i32_from_str(s)

\* map_or: the constant where it parsed, else what the register parse gave
ConstOrReg_from_str(s) ==
    IF Constant_from_str(s).tag = "Ok"
    THEN Ok(Const(Constant_from_str(s).value))
    ELSE IF Register_from_str(s).tag = "Ok"
    THEN Ok(Reg(Register_from_str(s).value))
    ELSE Register_from_str(s)

(***************************************************************************)
(* ParseError. The String of IncorrectArgument is                          *)
(* "Failed to parse {s}, with error: {err}" and that of                    *)
(* InstructionNotFoundOrWrongArgs is                                       *)
(* "Not found instruction or wrong args on line {i}, error: {line}": each  *)
(* is kept as the values that fill it.                                     *)
(***************************************************************************)
EmptyInput == [kind |-> "EmptyInput"]
EmptyLine == [kind |-> "EmptyLine"]
\* "Failed to parse, with error: {err}", the token left out
IncorrectArgument_without_token(s, err) ==
    [kind |-> "IncorrectArgument", s |-> <<>>, err |-> err]

IncorrectArgument(s, err) == [kind |-> "IncorrectArgument", s |-> s, err |-> err]
InstructionNotFoundOrWrongArgs(i, line) ==
    [kind |-> "InstructionNotFoundOrWrongArgs", i |-> i, line |-> line]

\* T::from_str for the two types that parse_token is used at
from_str(T, s) == IF T = "Register" THEN Register_from_str(s) ELSE ConstOrReg_from_str(s)

parse_token(T, s) ==
    IF from_str(T, s).tag = "Ok"
    THEN from_str(T, s)
    ELSE Err(IncorrectArgument(s, from_str(T, s).err))

\* let x_reg = parse_token(x)?; let y_reg = parse_token(y)?: the first Err
\* returns, else the two values go on
both(x_reg, y_reg) ==
    IF x_reg.tag = "Err" THEN x_reg
    ELSE IF y_reg.tag = "Err" THEN y_reg
    ELSE Ok(<<x_reg.value, y_reg.value>>)

NoArm == [tag |-> "NoArm"]

\* the four arms of the match that name an opcode, NoArm when parts fit none
opcode_arms(parts) ==
    IF Len(parts) = 3 /\ parts[1] = <<"m", "o", "v">>
    THEN LET r == both(parse_token("Register", parts[2]), parse_token("ConstOrReg", parts[3]))
         IN  IF r.tag = "Err" THEN r ELSE Ok(Mov(r.value[1], r.value[2]))
    ELSE IF Len(parts) = 3 /\ parts[1] = <<"a", "d", "d">>
    THEN LET r == both(parse_token("Register", parts[2]), parse_token("Register", parts[3]))
         IN  IF r.tag = "Err" THEN r ELSE Ok(Add(r.value[1], r.value[2]))
    ELSE IF Len(parts) = 2 /\ parts[1] = <<"p", "r", "i", "n", "t">>
    THEN LET r == parse_token("Register", parts[2])
         IN  IF r.tag = "Err" THEN r ELSE Ok(Prt(r.value))
    ELSE IF Len(parts) = 3 /\ parts[1] = <<"j", "n", "z">>
    THEN LET r == both(parse_token("ConstOrReg", parts[2]), parse_token("ConstOrReg", parts[3]))
         IN  IF r.tag = "Err" THEN r ELSE Ok(Jnz(r.value[1], r.value[2]))
    ELSE NoArm

\* the match, with the line's number counted from 1
match_parts_from_one(i, line) ==
    LET parts == split_ascii_whitespace(line)
    IN  IF opcode_arms(parts).tag # "NoArm" THEN opcode_arms(parts)
        ELSE IF Len(parts) > 0
        THEN Err(InstructionNotFoundOrWrongArgs(i + 1, line))
        ELSE Err(EmptyLine)

\* the match on the parts of line i
match_parts(i, line) ==
    LET parts == split_ascii_whitespace(line)
    IN  IF opcode_arms(parts).tag # "NoArm" THEN opcode_arms(parts)
        ELSE IF Len(parts) > 0
        THEN Err(InstructionNotFoundOrWrongArgs(i, line))
        ELSE Err(EmptyLine)

\* a loop that goes on after a line in error and returns the last error
RECURSIVE for_lines_last_error(_, _, _)
for_lines_last_error(input, i, instrs) ==
    IF i = Len(input) THEN Ok(instrs)
    ELSE IF for_lines_last_error(input, i + 1, instrs).tag = "Err"
    THEN for_lines_last_error(input, i + 1, instrs)
    ELSE IF match_parts(i, input[i + 1]).tag = "Err"
    THEN match_parts(i, input[i + 1])
    ELSE Ok(<<match_parts(i, input[i + 1]).value>> \o for_lines_last_error(input, i + 1, instrs).value)

\* the for loop from line i on, instrs being what was pushed so far
RECURSIVE for_lines(_, _, _)
for_lines(input, i, instrs) ==
    IF i = Len(input) THEN Ok(instrs)
    ELSE IF match_parts(i, input[i + 1]).tag = "Err"
    THEN match_parts(i, input[i + 1])
    ELSE for_lines(input, i + 1, Append(instrs, match_parts(i, input[i + 1]).value))

\* a parse_instructions without the test of input.is_empty()
parse_instructions_of_any(input) == for_lines(input, 0, <<>>)

parse_instructions(input) ==
    IF input = <<>> THEN Err(EmptyInput) ELSE for_lines(input, 0, <<>>)

(***************************************************************************)
(* Display for Constant and for Register: the decimal digits of the i32,   *)
(* after a '-' when it is negative, and the name as it is.                 *)
(***************************************************************************)
RECURSIVE decimal(_)
decimal(n) ==
    LET m == n % 10
        d == IF n < 0 THEN (10 - m) % 10 ELSE m
        q == IF n < 0 /\ m # 0 THEN (n \div 10) + 1 ELSE n \div 10
    IN  IF q = 0 THEN <<AsciiDigits[d + 1]>> ELSE Append(decimal(q), AsciiDigits[d + 1])

\* a Display that leaves the sign out
Constant_fmt_unsigned(c) == decimal(c)

Constant_fmt(c) == IF c < 0 THEN <<"-">> \o decimal(c) ELSE decimal(c)

Register_fmt(r) == r

(***************************************************************************)
(* The inputs: up to MaxLines lines, each one of Lines. In the order of    *)
(* Lines: lines that parse (a '+', leading zeros, the two ends of i32, a   *)
(* register named as an opcode, irregular whitespace), lines with an       *)
(* operand that does not parse, lines of an unknown or misused opcode,     *)
(* and blank lines.                                                        *)
(***************************************************************************)
MaxLines == 2

Lines ==
    {
     <<"m", "o", "v", " ", "a", " ", "1">>,
     <<"m", "o", "v", " ", "b", " ", "a">>,
     <<"m", "o", "v", " ", "a", " ", "-", "1">>,
     <<"m", "o", "v", " ", "a", " ", "+", "1">>,
     <<"m", "o", "v", " ", "b", " ", "0", "0", "7">>,
     <<"m", "o", "v", " ", "a", " ", "2", "1", "4", "7", "4", "8", "3", "6", "4", "7">>,
     <<"m", "o", "v", " ", "a", " ", "-", "2", "1", "4", "7", "4", "8", "3", "6", "4", "8">>,
     <<"m", "o", "v", " ", "m", "o", "v", " ", "0">>,
     <<"a", "d", "d", " ", "a", " ", "b">>,
     <<"p", "r", "i", "n", "t", " ", "a">>,
     <<"j", "n", "z", " ", "a", " ", "-", "1">>,
     <<"j", "n", "z", " ", "1", " ", "b">>,
     <<"j", "n", "z", " ", "0", " ", "2">>,
     <<" ", " ", "m", "o", "v", "\t", "a", " ", " ", "1", " ">>,
     <<"m", "o", "v", " ", "1", " ", "1">>,
     <<"m", "o", "v", " ", "a", " ", "2", "1", "4", "7", "4", "8", "3", "6", "4", "8">>,
     <<"m", "o", "v", " ", "a", " ", "-", "2", "1", "4", "7", "4", "8", "3", "6", "4", "9">>,
     <<"m", "o", "v", " ", "a", "1", " ", "b", "2">>,
     <<"m", "o", "v", " ", "a", " ", "b", "2">>,
     <<"a", "d", "d", " ", "a", " ", "1">>,
     <<"a", "d", "d", " ", "1", " ", "a">>,
     <<"a", "d", "d", " ", "a", "1", " ", "1">>,
     <<"p", "r", "i", "n", "t", " ", "1">>,
     <<"p", "r", "i", "n", "t", " ", "-", "a">>,
     <<"j", "n", "z", " ", "a", "-", " ", "1">>,
     <<"j", "n", "z", " ", "a", " ", "-">>,
     <<"j", "n", "z", " ", "+", " ", "1">>,
     <<"j", "n", "z", " ", "1", "a", " ", "a", "1">>,
     <<"m", "b", "x", " ", "a", " ", "2">>,
     <<"m", "o", "v", " ", "a">>,
     <<"m", "o", "v", " ", "a", " ", "b", " ", "c">>,
     <<"p", "r", "i", "n", "t">>,
     <<"p", "r", "i", "n", "t", " ", "a", " ", "b">>,
     <<"a", "d", "d", " ", "a">>,
     <<"j", "n", "z", " ", "a">>,
     <<"M", "O", "V", " ", "a", " ", "1">>,
     <<"a">>,
     <<"1">>,
     <<"m", "b", "x", " ", " ", "a", " ", "2">>,
     <<>>,
     <<" ">>,
     <<"\t", " ">>
    }

Inputs == UNION {[1..n -> Lines] : n \in 0..MaxLines}

InitParse ==
    /\ lines \in Inputs
    /\ parsed = None
    /\ registers = [r \in {} |-> 0]
    /\ pc = 0
    /\ max_len = 0
    /\ instructions = <<>>
    /\ mode = "new"
    /\ out = <<>>
    /\ steps = 0
    /\ calls = 0

parse ==
    /\ parsed = None
    /\ parsed' = parse_instructions(lines)
    /\ UNCHANGED <<registers, pc, max_len, instructions, mode, out, steps, calls, lines>>

NextParse == parse

SpecParse == InitParse /\ [][NextParse]_vars

(***************************************************************************)
(* Vocabulary of the properties: a step that is one iteration of the loop, *)
(* and the instruction that iteration fetched.                             *)
(***************************************************************************)
Iterates == steps' = steps + 1

Fetched == instructions'[pc + 1]

Running == mode' = "running"

Fatal == mode' = "panicked" /\ registers' = registers /\ pc' = pc /\ out' = out

Empty == [r \in {} |-> 0]

\* 0 <= p + v <= len over the integers, for p <= len
InProgram(p, v, len) == v >= -p /\ v <= len - p

\* r is the 32-bit two's-complement sum of v and w: the sum taken in two
\* 16-bit halves with the carry between them, the carry out dropped.
IsWrappedSum(r, v, w) ==
    LET Half == 65536
        low == (v % Half) + (w % Half)
        high == ((v \div Half) % Half) + ((w \div Half) % Half) + (low \div Half)
    IN  /\ I32Min <= r /\ r <= I32Max
        /\ r % Half = low % Half
        /\ (r \div Half) % Half = high % Half

(***************************************************************************)
(* C1. A loop iteration that fetches Print(reg) with reg unbound emits     *)
(* nothing, does not panic, leaves every register as it was and sets pc to *)
(* pc + 1.                                                                 *)
(* The code leaves pc where it is (the None arm of Vm::print is empty), so *)
(* the statement is violated by the first such iteration.                  *)
(***************************************************************************)
C1_PrintUnboundAdvances ==
    [][(Iterates /\ Fetched.op = "Print" /\ Fetched.x \notin DOMAIN registers)
        => (out' = out /\ Running /\ registers' = registers /\ pc' = pc + 1)]_vars

(***************************************************************************)
(* C2. A loop iteration that fetches Jnz(test, offset) at pc, with test    *)
(* resolving to a nonzero value and offset resolving to v: if              *)
(* 0 <= pc + v <= len the iteration sets pc to pc + v and changes no       *)
(* register; otherwise it is fatal.                                        *)
(***************************************************************************)
C2_JnzTarget ==
    [][(/\ Iterates
        /\ Fetched.op = "Jnz"
        /\ loads(Fetched.cx)
        /\ get_const_or_load(Fetched.cx) # 0
        /\ loads(Fetched.cy))
        => LET v == get_const_or_load(Fetched.cy) IN
           IF InProgram(pc, v, Len(instructions))
           THEN pc' = pc + v /\ registers' = registers /\ Running /\ out' = out
           ELSE Fatal]_vars

\* A backward jump was taken: the call started at address 1, read Jnz(1, -1)
\* there and stands at address 0, which it has not read.
C2_Witness ==
    /\ mode = "running"
    /\ steps = 1
    /\ Len(instructions) = 3
    /\ instructions[2] = Jnz(Const(1), Const(-1))
    /\ instructions[1] = Unread
    /\ pc = 0

(***************************************************************************)
(* C3. A loop iteration that fetches Jnz(test, offset) with test resolving *)
(* to zero sets pc to pc + 1, changes no register and is not fatal,        *)
(* whatever offset is: an unbound register, or a constant that leads out   *)
(* of the program.                                                         *)
(***************************************************************************)
C3_JnzZeroFallsThrough ==
    [][(/\ Iterates
        /\ Fetched.op = "Jnz"
        /\ loads(Fetched.cx)
        /\ get_const_or_load(Fetched.cx) = 0)
        => (pc' = pc + 1 /\ registers' = registers /\ Running /\ out' = out)]_vars

\* Jnz(0, b) with b unbound has run at address 0 on a new Vm.
C3_Witness ==
    /\ mode = "running"
    /\ steps = 1
    /\ pc = 1
    /\ Len(instructions) >= 1
    /\ instructions[1] = Jnz(Const(0), Reg("b"))
    /\ registers = Empty

(***************************************************************************)
(* C4. A loop iteration that fetches Add(dest, src) with both registers    *)
(* bound stores in dest the 32-bit two's-complement sum of the two values, *)
(* sets pc to pc + 1, leaves every other register as it was and does not   *)
(* panic.                                                                  *)
(***************************************************************************)
C4_AddWraps ==
    [][(/\ Iterates
        /\ Fetched.op = "Add"
        /\ Fetched.x \in DOMAIN registers
        /\ Fetched.y \in DOMAIN registers)
        => /\ Running
           /\ pc' = pc + 1
           /\ out' = out
           /\ DOMAIN registers' = DOMAIN registers
           /\ IsWrappedSum(registers'[Fetched.x], registers[Fetched.x], registers[Fetched.y])
           /\ \A r \in DOMAIN registers \ {Fetched.x} : registers'[r] = registers[r]]_vars

\* mov a 2147483647, mov b 1, add a b has left a = -2147483648
C4_Witness ==
    /\ instructions = <<Mov("a", Const(I32Max)), Mov("b", Const(1)), Add("a", "b")>>
    /\ pc = 3
    /\ registers["a"] = I32Min
    /\ registers["b"] = 1

(***************************************************************************)
(* C5. A loop iteration that fetches Mov(dest, Const c) binds dest to c,   *)
(* bound before or not; one that fetches Mov(dest, Reg src) with src bound *)
(* binds dest to the value src has. Either sets pc to pc + 1 and leaves    *)
(* every other register as it was, bound or unbound. And a call that ran a *)
(* program of constant moves only, from address 0, returns with pc at the  *)
(* program's length and every moved register holding the last constant     *)
(* moved into it.                                                          *)
(***************************************************************************)
IsMovConst(i) == i.op = "Mov" /\ i.cy.tag = "Const"

\* the last constant the program moves into r
LastMoved(prog, r) ==
    LET last == CHOOSE i \in 1..Len(prog) :
                    /\ prog[i].x = r
                    /\ \A j \in (i + 1)..Len(prog) : prog[j].x # r
    IN  prog[last].cy.val

C5_MovStep ==
    (/\ Iterates
     /\ Fetched.op = "Mov"
     /\ (Fetched.cy.tag = "Reg" => Fetched.cy.reg \in DOMAIN registers))
    => /\ Running
       /\ pc' = pc + 1
       /\ out' = out
       /\ DOMAIN registers' = DOMAIN registers \cup {Fetched.x}
       /\ registers'[Fetched.x] = IF Fetched.cy.tag = "Const"
                                  THEN Fetched.cy.val
                                  ELSE registers[Fetched.cy.reg]
       /\ \A r \in DOMAIN registers \ {Fetched.x} : registers'[r] = registers[r]

C5_MovesRun ==
    (/\ mode = "running"
     /\ mode' = "returned"
     /\ Len(instructions) >= 1
     /\ \A i \in 1..Len(instructions) : IsMovConst(instructions[i]))
    => /\ pc' = Len(instructions)
       /\ \A i \in 1..Len(instructions) :
             /\ instructions[i].x \in DOMAIN registers'
             /\ registers'[instructions[i].x] = LastMoved(instructions, instructions[i].x)

C5_Mov == [][C5_MovStep /\ C5_MovesRun]_vars

\* mov a 1, mov b 0, mov a -1 has run from address 0 and stands at the end
C5_Witness ==
    /\ mode = "running"
    /\ instructions = <<Mov("a", Const(1)), Mov("b", Const(0)), Mov("a", Const(-1))>>
    /\ pc = 3
    /\ registers = [r \in {"a", "b"} |-> IF r = "a" THEN -1 ELSE 0]

(***************************************************************************)
(* C6. A loop iteration whose instruction refers to an unbound register is *)
(* fatal unless the instruction is Print: Mov(dest, Reg src) with src      *)
(* unbound, Add with either operand unbound, Jnz with an unbound test, Jnz *)
(* with a nonzero test and an unbound offset. The abort changes no         *)
(* register, leaves pc where it was and emits nothing, and nothing happens *)
(* after it.                                                               *)
(***************************************************************************)
RefersToUnbound(i) ==
    \/ i.op = "Mov" /\ i.cy.tag = "Reg" /\ i.cy.reg \notin DOMAIN registers
    \/ i.op = "Add" /\ (i.x \notin DOMAIN registers \/ i.y \notin DOMAIN registers)
    \/ i.op = "Jnz" /\ i.cx.tag = "Reg" /\ i.cx.reg \notin DOMAIN registers
    \/ /\ i.op = "Jnz"
       /\ loads(i.cx)
       /\ get_const_or_load(i.cx) # 0
       /\ i.cy.tag = "Reg"
       /\ i.cy.reg \notin DOMAIN registers

C6_UnboundIsFatal ==
    [][/\ (Iterates /\ RefersToUnbound(Fetched)) => Fatal
       /\ mode # "panicked"]_vars

\* add a b has aborted at address 1 with a bound and b unbound
C6_Witness ==
    /\ mode = "panicked"
    /\ pc = 1
    /\ instructions[2] = Add("a", "b")
    /\ DOMAIN registers = {"a"}

(***************************************************************************)
(* C7. A loop iteration that fetches Print(reg) with reg bound to v emits  *)
(* the one character of scalar value v and sets pc to pc + 1 if v is a     *)
(* Unicode scalar value (0 <= v <= 0x10FFFF, v outside 0xD800..0xDFFF);    *)
(* for any other v it is fatal and emits nothing. No Print changes a       *)
(* register.                                                               *)
(***************************************************************************)
IsScalarValue(v) == 0 <= v /\ v <= 1114111 /\ ~(v \in 55296..57343)

C7_PrintBound ==
    [][(Iterates /\ Fetched.op = "Print")
        => /\ registers' = registers
           /\ Fetched.x \in DOMAIN registers =>
                IF IsScalarValue(registers[Fetched.x])
                THEN /\ out' = Append(out, registers[Fetched.x])
                     /\ pc' = pc + 1
                     /\ Running
                ELSE Fatal]_vars

\* print a has aborted on the surrogate 0xD800
C7_Witness ==
    /\ mode = "panicked"
    /\ out = <<>>
    /\ pc < Len(instructions)
    /\ instructions[pc + 1] = Prt("a")
    /\ "a" \in DOMAIN registers
    /\ registers["a"] = SurrogateLo

(***************************************************************************)
(* C8. The loop returns exactly when pc >= the program's length. An        *)
(* iteration with pc inside the program fetches the instruction at pc,     *)
(* only that one, and does not return; an iteration with pc outside it     *)
(* returns and touches neither the registers nor the output. A call with   *)
(* start_pc >= length therefore returns at once with the registers it      *)
(* found, and whenever interpret has returned, pc >= length.               *)
(***************************************************************************)
C8_Inside ==
    (mode = "running" /\ pc < Len(instructions))
    => /\ Iterates
       /\ mode' # "returned"
       /\ Fetched # Unread
       /\ instructions[pc + 1] # Unread => Fetched = instructions[pc + 1]
       /\ Len(instructions') = Len(instructions)
       /\ \A i \in 1..Len(instructions) : i # pc + 1 => instructions'[i] = instructions[i]

C8_Outside ==
    (mode = "running" /\ pc >= Len(instructions))
    => /\ mode' = "returned"
       /\ steps' = steps
       /\ registers' = registers
       /\ out' = out
       /\ pc' = pc

C8_Entry ==
    (calls' = calls + 1)
    => /\ Running
       /\ max_len' = Len(instructions')
       /\ registers' = registers
       /\ out' = out
       /\ steps' = steps

C8_LoopHalts ==
    [][/\ C8_Inside
       /\ C8_Outside
       /\ C8_Entry
       /\ mode' = "returned" => pc' >= max_len']_vars

\* a call on a new Vm with a program of length 2 and start_pc = 3 has returned
C8_Witness ==
    /\ mode = "returned"
    /\ calls = 1
    /\ steps = 0
    /\ max_len = 2
    /\ pc = 3
    /\ registers = Empty
    /\ out = <<>>

(***************************************************************************)
(* C9. Every call of interpret starts from an empty register file: the     *)
(* bindings of one call are not there when a later call starts.            *)
(* The code makes the register file in Vm::new and interpret never clears  *)
(* it, so a second call on the same Vm starts with the bindings the first  *)
(* left.                                                                   *)
(***************************************************************************)
C9_RunStartsEmpty == [][calls' = calls + 1 => registers' = Empty]_vars

C11_CountdownHalts ==
    \A n \in 1..MaxCount :
        (mode = "running" /\ instructions = countdown(n))
        ~> (/\ mode = "returned"
            /\ pc = 4
            /\ registers = [r \in {"a", "b"} |-> IF r = "a" THEN 0 ELSE -1]
            /\ steps = 2 * n + 2)

\* the longest countdown has returned
C11_Witness ==
    /\ mode = "returned"
    /\ pc = 4
    /\ steps = 2 * MaxCount + 2
    /\ registers = [r \in {"a", "b"} |-> IF r = "a" THEN 0 ELSE -1]

(***************************************************************************)
(* C19. A program whose every Jnz offset is a strictly positive constant,  *)
(* started at any address, eventually halts normally or aborts: no run of  *)
(* interpret on it goes on forever.                                        *)
(***************************************************************************)
C19_ForwardProgramsHalt ==
    (mode = "running") ~> (mode \in {"returned", "panicked"})

(***************************************************************************)
(* C20. When every call of interpret has start_pc <= length, 0 <= pc <=    *)
(* length holds in every reachable state, and a normal halt has pc =       *)
(* length.                                                                 *)
(***************************************************************************)
C20_PcInProgram ==
    /\ 0 <= pc
    /\ pc <= max_len
    /\ mode = "returned" => pc = max_len

\* a run has iterated on a slice of the greatest length and halted at its end
C20_Witness ==
    /\ mode = "returned"
    /\ steps > 0
    /\ max_len = MaxLen
    /\ pc = max_len

(***************************************************************************)
(* Vocabulary of the parser's properties: the grammar of the language as   *)
(* the specification words it, over the tokens of a line.                  *)
(*   IsName(t)        t is purely alphabetic                               *)
(*   IsI32Literal(t)  t is a decimal literal, with or without a sign, of   *)
(*                    a value in -2^31 .. 2^31 - 1                         *)
(*   LiteralText(t)   t without its '+' and its leading zeros              *)
(*   WellShaped(l)    l starts with an opcode and has its operand count    *)
(*   FailingOperands(l)  the positions of the operands of l that do not    *)
(*                    fit the grammar of their position                    *)
(***************************************************************************)
Opcodes ==
    {<<"m", "o", "v">>, <<"a", "d", "d">>, <<"p", "r", "i", "n", "t">>, <<"j", "n", "z">>}

OperandGrammar(parts) ==
    IF parts = <<>> THEN <<>>
    ELSE IF parts[1] = <<"m", "o", "v">> THEN <<"Register", "ConstOrReg">>
    ELSE IF parts[1] = <<"a", "d", "d">> THEN <<"Register", "Register">>
    ELSE IF parts[1] = <<"p", "r", "i", "n", "t">> THEN <<"Register">>
    ELSE IF parts[1] = <<"j", "n", "z">> THEN <<"ConstOrReg", "ConstOrReg">>
    ELSE <<>>

IsName(t) == \A k \in DOMAIN t : is_alphabetic(t[k])

Unsigned(t) == IF t # <<>> /\ t[1] \in {"+", "-"} THEN Tail(t) ELSE t

RECURSIVE StripZeros(_)
StripZeros(d) == IF Len(d) > 1 /\ d[1] = "0" THEN StripZeros(Tail(d)) ELSE d

\* a <= b, for two digit strings of one length
RECURSIVE DigitsLeq(_, _)
DigitsLeq(a, b) ==
    IF a = <<>> THEN TRUE
    ELSE IF to_digit(Head(a)) # to_digit(Head(b)) THEN to_digit(Head(a)) < to_digit(Head(b))
    ELSE DigitsLeq(Tail(a), Tail(b))

GreatestMagnitude(negative) ==
    <<"2", "1", "4", "7", "4", "8", "3", "6", "4", IF negative THEN "8" ELSE "7">>

IsI32Literal(t) ==
    LET d == Unsigned(t)
    IN  /\ d # <<>>
        /\ \A k \in DOMAIN d : is_digit(d[k])
        /\ \/ Len(StripZeros(d)) < 10
           \/ /\ Len(StripZeros(d)) = 10
              /\ DigitsLeq(StripZeros(d), GreatestMagnitude(t[1] = "-"))

LiteralText(t) ==
    LET d == StripZeros(Unsigned(t))
    IN  IF t[1] = "-" /\ d # <<"0">> THEN <<"-">> \o d ELSE d

Fits(grammar, t) ==
    IF grammar = "Register" THEN IsName(t) ELSE IsI32Literal(t) \/ IsName(t)

IsBlank(line) == split_ascii_whitespace(line) = <<>>

WellShaped(line) ==
    LET parts == split_ascii_whitespace(line)
    IN  /\ parts # <<>>
        /\ parts[1] \in Opcodes
        /\ Len(parts) = 1 + Len(OperandGrammar(parts))

FailingOperands(line) ==
    LET parts == split_ascii_whitespace(line)
    IN  {k \in DOMAIN OperandGrammar(parts) : ~Fits(OperandGrammar(parts)[k], parts[k + 1])}

LineParses(line) == WellShaped(line) /\ FailingOperands(line) = {}

BadLines(input) == {i \in 0..(Len(input) - 1) : ~LineParses(input[i + 1])}

Lowest(S) == CHOOSE i \in S : \A j \in S : i <= j

\* line i of the input is the first that does not parse
FirstBadLine(input, i) == BadLines(input) # {} /\ i = Lowest(BadLines(input))

(***************************************************************************)
(* C12. Parsing is fail-fast and atomic. On an input of at least one line, *)
(* the result is Ok, with one instruction per line, only when every line   *)
(* parses; otherwise it is the error of the lowest-indexed line that does  *)
(* not parse, and in it of the leftmost operand that fails, the same       *)
(* whatever the later lines are, and it carries no instruction.            *)
(***************************************************************************)
C12_FailFast ==
    (parsed # None /\ lines # <<>>) =>
        IF BadLines(lines) = {}
        THEN parsed.tag = "Ok" /\ Len(parsed.value) = Len(lines)
        ELSE LET i == Lowest(BadLines(lines))
                 parts == split_ascii_whitespace(lines[i + 1])
             IN  /\ parsed.tag = "Err"
                 /\ DOMAIN parsed = {"tag", "err"}
                 /\ parsed = parse_instructions(SubSeq(lines, 1, i + 1))
                 /\ IF IsBlank(lines[i + 1]) THEN parsed.err.kind = "EmptyLine"
                    ELSE IF ~WellShaped(lines[i + 1])
                    THEN /\ parsed.err.kind = "InstructionNotFoundOrWrongArgs"
                         /\ parsed.err.i = i
                         /\ parsed.err.line = lines[i + 1]
                    ELSE /\ parsed.err.kind = "IncorrectArgument"
                         /\ parsed.err.s = parts[1 + Lowest(FailingOperands(lines[i + 1]))]

\* two lines in error were parsed, the first with both of its operands failing
C12_Witness ==
    /\ parsed # None
    /\ Len(lines) = MaxLines
    /\ BadLines(lines) = 0..(Len(lines) - 1)
    /\ WellShaped(lines[1])
    /\ Cardinality(FailingOperands(lines[1])) = 2
    /\ lines[2] # lines[1]

\* the ConstOrReg that an instruction holds for the operand at position k of its line
OperandOf(instr, k) ==
    IF instr.op = "Mov" THEN instr.cy ELSE IF k = 1 THEN instr.cx ELSE instr.cy

\* operand k of line i is a ConstOrReg, and nothing else in the input fails
OnlyConstOrRegInDoubt(input, i, k) ==
    /\ BadLines(input) \subseteq {i}
    /\ WellShaped(input[i + 1])
    /\ k \in DOMAIN OperandGrammar(split_ascii_whitespace(input[i + 1]))
    /\ OperandGrammar(split_ascii_whitespace(input[i + 1]))[k] = "ConstOrReg"
    /\ FailingOperands(input[i + 1]) \subseteq {k}

(***************************************************************************)
(* C13. A ConstOrReg operand is resolved constant-first: a token that is a *)
(* valid signed 32-bit integer literal becomes Const of its value (the     *)
(* value whose decimal text is the literal, sign '+' and leading zeros     *)
(* apart), never Reg; a token that is no such literal and is purely        *)
(* alphabetic becomes Reg of that name; any other token fails the line     *)
(* with IncorrectArgument.                                                 *)
(***************************************************************************)
C13_ConstantFirst ==
    parsed # None =>
        \A i \in 0..(Len(lines) - 1) : \A k \in 1..2 :
            OnlyConstOrRegInDoubt(lines, i, k) =>
                LET t == split_ascii_whitespace(lines[i + 1])[k + 1]
                IN  IF IsI32Literal(t)
                    THEN /\ parsed.tag = "Ok"
                         /\ OperandOf(parsed.value[i + 1], k).tag = "Const"
                         /\ Constant_fmt(OperandOf(parsed.value[i + 1], k).val) = LiteralText(t)
                    ELSE IF IsName(t)
                    THEN /\ parsed.tag = "Ok"
                         /\ OperandOf(parsed.value[i + 1], k) = Reg(t)
                    ELSE /\ parsed.tag = "Err"
                         /\ parsed.err.kind = "IncorrectArgument"

\* a jnz of a constant and a register was parsed after a mov of a literal with a sign
C13_Witness ==
    /\ parsed # None
    /\ parsed.tag = "Ok"
    /\ Len(lines) = 2
    /\ split_ascii_whitespace(lines[1])[1] = <<"m", "o", "v">>
    /\ split_ascii_whitespace(lines[1])[3][1] \in {"+", "-"}
    /\ parsed.value[1].cy.tag = "Const"
    /\ parsed.value[2].op = "Jnz"
    /\ parsed.value[2].cx.tag = "Const"
    /\ parsed.value[2].cy.tag = "Reg"

\* line i is the first that does not parse, and it is not blank
FirstBadLineIsShape(input, i) ==
    /\ FirstBadLine(input, i)
    /\ ~IsBlank(input[i + 1])
    /\ ~WellShaped(input[i + 1])

(***************************************************************************)
(* C14. When all earlier lines parsed, a line that is not blank and whose  *)
(* first token is not an opcode, or whose token count is not that of its   *)
(* opcode (3 for mov, add and jnz, 2 for print), fails with                *)
(* InstructionNotFoundOrWrongArgs carrying the line's index counted from 0 *)
(* and its raw text.                                                       *)
(***************************************************************************)
C14_UnknownOrMisshapen ==
    parsed # None =>
        \A i \in 0..(Len(lines) - 1) :
            FirstBadLineIsShape(lines, i) =>
                parsed = Err(InstructionNotFoundOrWrongArgs(i, lines[i + 1]))

\* a misshapen line with a doubled space failed at index 1, after a line that parsed
C14_Witness ==
    /\ parsed # None
    /\ Len(lines) = 2
    /\ FirstBadLineIsShape(lines, 1)
    /\ \E c \in 1..(Len(lines[2]) - 1) : lines[2][c] = " " /\ lines[2][c + 1] = " "
    /\ parsed.tag = "Err"
    /\ parsed.err.i = 1

\* line i is the first that does not parse: an opcode with its operand count, and
\* an operand that does not fit the grammar of its position
FirstBadLineIsOperand(input, i) ==
    /\ FirstBadLine(input, i)
    /\ WellShaped(input[i + 1])

(***************************************************************************)
(* C15. A line with a known opcode and its operand count, one of whose     *)
(* operands fails the grammar of its position (a register position with a  *)
(* character that is not alphabetic, a ConstOrReg position with a token    *)
(* that is neither a valid signed 32-bit integer nor alphabetic), fails    *)
(* with IncorrectArgument carrying the offending token, the leftmost when  *)
(* there are two, and the description of the parse failure.                *)
(***************************************************************************)
C15_BadOperand ==
    parsed # None =>
        \A i \in 0..(Len(lines) - 1) :
            FirstBadLineIsOperand(lines, i) =>
                LET parts == split_ascii_whitespace(lines[i + 1])
                    t == parts[1 + Lowest(FailingOperands(lines[i + 1]))]
                IN  /\ parsed.tag = "Err"
                    /\ parsed.err.kind = "IncorrectArgument"
                    /\ parsed.err.s = t
                    /\ parsed.err.err = "Parsing failure, register value should be alphabetic"

\* after a line that parsed, a mov failed on a second operand made of digits only
C15_Witness ==
    /\ parsed # None
    /\ Len(lines) = 2
    /\ FirstBadLineIsOperand(lines, 1)
    /\ FailingOperands(lines[2]) = {2}
    /\ split_ascii_whitespace(lines[2])[1] = <<"m", "o", "v">>
    /\ parsed.tag = "Err"
    /\ \A c \in DOMAIN parsed.err.s : is_digit(parsed.err.s[c])

\* line i is the first that does not parse, and it is blank
FirstBadLineIsBlank(input, i) ==
    /\ FirstBadLine(input, i)
    /\ IsBlank(input[i + 1])

(***************************************************************************)
(* C16. A blank line at index i, all earlier lines being valid, makes      *)
(* parse_instructions fail with EmptyLine, and the error identifies the    *)
(* line: blank lines at different positions give errors that differ. The   *)
(* input without its first line has its first blank line at i - 1, so its  *)
(* error is another one.                                                   *)
(***************************************************************************)
C16_BlankLineIsLocated ==
    parsed # None =>
        \A i \in 0..(Len(lines) - 1) :
            FirstBadLineIsBlank(lines, i) =>
                /\ parsed.tag = "Err"
                /\ parsed.err.kind = "EmptyLine"
                /\ i >= 1 => parse_instructions(Tail(lines)) # parsed

(***************************************************************************)
(* C17. The result is EmptyInput exactly when the input has no line at     *)
(* all; an input of blank lines only has lines, and yields EmptyLine.      *)
(***************************************************************************)
C17_EmptyInput ==
    parsed # None =>
        /\ (parsed.tag = "Err" /\ parsed.err.kind = "EmptyInput") <=> Len(lines) = 0
        /\ (lines # <<>> /\ \A i \in DOMAIN lines : IsBlank(lines[i])) =>
               (parsed.tag = "Err" /\ parsed.err.kind = "EmptyLine")

\* the input of no line was parsed
C17_Witness ==
    /\ parsed # None
    /\ lines = <<>>
    /\ parsed.tag = "Err"

(***************************************************************************)
(* The canonical text of an instruction: its opcode and its operands,      *)
(* registers by name and constants in decimal with a '-' when negative,    *)
(* separated by single spaces.                                             *)
(***************************************************************************)
OperandText(x) == IF x.tag = "Const" THEN Constant_fmt(x.val) ELSE Register_fmt(x.reg)

Canonical(instr) ==
    IF instr.op = "Mov"
    THEN <<"m", "o", "v", " ">> \o Register_fmt(instr.x) \o <<" ">> \o OperandText(instr.cy)
    ELSE IF instr.op = "Add"
    THEN <<"a", "d", "d", " ">> \o Register_fmt(instr.x) \o <<" ">> \o Register_fmt(instr.y)
    ELSE IF instr.op = "Print"
    THEN <<"p", "r", "i", "n", "t", " ">> \o Register_fmt(instr.x)
    ELSE <<"j", "n", "z", " ">> \o OperandText(instr.cx) \o <<" ">> \o OperandText(instr.cy)

(***************************************************************************)
(* C18. Round trip: the canonical text of any instruction that the parser  *)
(* produced parses, as an input of one line, to that same instruction.     *)
(***************************************************************************)
C18_RoundTrip ==
    (parsed # None /\ parsed.tag = "Ok") =>
        \A k \in DOMAIN parsed.value :
            parse_instructions(<<Canonical(parsed.value[k])>>) = Ok(<<parsed.value[k]>>)

\* a mov of the least i32 was parsed, and after it an instruction from a line that
\* is not its canonical text
C18_Witness ==
    /\ parsed # None
    /\ parsed.tag = "Ok"
    /\ Len(lines) = 2
    /\ lines[2] # Canonical(parsed.value[2])
    /\ parsed.value[1].op = "Mov"
    /\ parsed.value[1].cy = Const(I32Min)

====
